---- MODULE Spec2Model ----
(***************************************************************************)
(* A model of server_update.py (PaperMC-Update): the install-with-recovery *)
(* sequence of FileUtil, ServerUpdater.check, FileUtil.load_config,        *)
(* Update.download, ServerUpdater._select, the constructor, and runs of    *)
(* check() and get_new() calls on one ServerUpdater.  The program is       *)
(* single threaded; each component is checked under its own specification  *)
(* over the shared state below.                                            *)
(***************************************************************************)
EXTENDS Integers, Sequences, FiniteSets, TLC

VARIABLES
    pc,             \* position of the running operation
    ret,            \* what the operation returned: "running", "True", "False", "raised"
    target,         \* the file at self.path
    backup,         \* {tempdir}/backup
    download_data,  \* {tempdir}/download_data
    tempExists,     \* the temporary directory exists
    reports,        \* diagnostics printed so far (fail points, critical, recovered)
    steps,          \* file-system calls made so far, in order, with their outcome
    orig0,          \* the target file as install() found it
    new0,           \* download_data as install() found it
    version,        \* ServerUpdater.version (installed version)
    buildnum,       \* ServerUpdater.buildnum (installed build)
    verResp,        \* what the remote answers to GET {base}
    buildResp,      \* what the remote answers to GET {base}/{version}
    fetched,        \* requests sent so far, in order
    config,         \* the configuration file load_config reads
    cfgParts,       \* how the file's currentVersion string was put together
    loaded,         \* what load_config returned
    quiet,          \* args.quiet
    body,           \* the response body of the download request
    offset,         \* bytes of the body read so far
    iter,           \* the iteration _progress_bar has yielded (its i)
    progress,       \* the 'bytes so far' values written by _progress_bar
    dest0,          \* the destination file as download() found it
    availableVersions, \* ServerUpdater._available_versions (cached version list)
    val,            \* _select: the value entered
    choice,         \* _select: the candidates
    default,        \* _select: the default value
    selected,       \* _select: what it returned
    prompt,         \* ServerUpdater.prompt (interactive mode)
    remoteVersions, \* the version list the API serves
    remoteBuilds,   \* the build lists the API serves, by version (known once fetched)
    default_version, \* args.version
    default_build,  \* args.build
    selVer,         \* version_select / get_new: the selected version (ver)
    selBuild,       \* version_select / get_new: the selected build (build)
    nums,           \* version_select: the build list fetched for ver
    prompts,        \* input() calls made by the running prompt loop
    calls,          \* operations called on the ServerUpdater so far
    exitPath,       \* how the last get_new ended
    before,         \* (version, buildnum) when the running operation was called
    requested,      \* the (version, build) download() asked the API for
    exitCode,       \* the exit status of the process, -1 while it runs
    update_available, \* __main__: update_available
    entered,        \* version_select: the value last passed to _select
    stored,         \* version_select has stored a fetched version list
    answer,         \* get_new: what was typed at (Y/N), "unasked" without prompt
    use_config      \* ServerUpdater.__init__: config (args.no_load_config)

installVars == <<pc, ret, target, backup, download_data, tempExists, reports, steps, orig0, new0>>

checkVars == <<version, buildnum, verResp, buildResp, fetched>>

configVars == <<config, cfgParts, loaded, use_config>>

downloadVars == <<quiet, body, offset, iter, progress, dest0>>

selectVars == <<availableVersions, val, choice, default, selected>>

runVars == <<prompt, remoteVersions, remoteBuilds, default_version, default_build, selVer, selBuild, nums,
             prompts, calls, exitPath, before, requested, exitCode, update_available,
             entered, stored, answer>>

\* what install() and _recover_backup() never touch
nonInstallVars == <<checkVars, configVars, downloadVars, selectVars, runVars>>

\* what check() never touches
nonCheckVars == <<target, backup, download_data, tempExists, reports, steps, orig0, new0, configVars, downloadVars,
                  selectVars, runVars>>

\* what load_config() never touches
nonConfigVars == <<ret, target, backup, download_data, tempExists, reports, steps, orig0, new0, checkVars,
                   downloadVars, selectVars, runVars>>

\* what download() never touches
nonDownloadVars == <<target, backup, tempExists, steps, orig0, new0, checkVars, configVars, selectVars, runVars>>

\* what _select() never touches
nonSelectVars == <<ret, target, backup, download_data, tempExists, reports, steps, orig0, new0, checkVars,
                   configVars, downloadVars, runVars>>

vars == <<installVars, checkVars, configVars, downloadVars, selectVars, runVars>>

----------------------------------------------------------------------------
(* Bounds of the model *)

\* longest file content (in bytes) the install model enumerates
MaxLen == 2

\* longest version list and build list the remote returns
MaxList == 2

\* longest prefix, build number and version of a generated currentVersion string
MaxPart == 2

\* longest currentVersion string drawn freely from the alphabet
MaxJunk == 3

\* most full blocks in a downloaded body
MaxBlocks == 2

\* most operations called on one ServerUpdater in a run
MaxCalls == 2

\* most rejected answers in one prompt loop
MaxPrompts == 1

----------------------------------------------------------------------------
(* Files *)

Byte == 0..1

Contents == UNION {[1..n -> Byte] : n \in 0..MaxLen}

NoFile == [exists |-> FALSE, data |-> <<>>]

File(d) == [exists |-> TRUE, data |-> d]

Prefixes(d) == {SubSeq(d, 1, n) : n \in 0..Len(d)}

\* shutil.copyfile(src, dst): on success dst holds src's bytes.  A failure
\* leaves dst as it was (src or dst could not be opened) or, once dst was
\* opened for writing and truncated, with some prefix of src's bytes.
copyfile(src, dst) ==
    IF ~src.exists
    THEN {[ok |-> FALSE, dst |-> dst]}
    ELSE {[ok |-> TRUE, dst |-> File(src.data)], [ok |-> FALSE, dst |-> dst]}
         \cup {[ok |-> FALSE, dst |-> File(p)] : p \in Prefixes(src.data)}

\* os.remove(path): removes the file or raises and leaves it; a missing file
\* raises FileNotFoundError.
remove(f) ==
    IF ~f.exists
    THEN {[ok |-> FALSE, err |-> "FileNotFoundError", f |-> f]}
    ELSE {[ok |-> TRUE, err |-> "", f |-> NoFile], [ok |-> FALSE, err |-> "OSError", f |-> f]}

Step(op, ok) == [op |-> op, ok |-> ok]

----------------------------------------------------------------------------
(* Python values: str and int are distinct types and never compare equal *)

PyStr(s) == [t |-> "str", v |-> s]

PyInt(n) == [t |-> "int", v |-> n]

\* a == b on Python values
PyEq(a, b) == a.t = b.t /\ a.v = b.v

DigitChars == <<"0", "1", "2", "3", "4", "5", "6", "7", "8", "9">>

RECURSIVE DecStr(_)
\* the decimal digits of a natural number
DecStr(n) == IF n < 10 THEN <<DigitChars[n + 1]>> ELSE Append(DecStr(n \div 10), DigitChars[(n % 10) + 1])

\* str(x): a str is returned as it is, an int is written in decimal
str(x) == IF x.t = "str" THEN x ELSE PyStr(DecStr(x.v))

----------------------------------------------------------------------------
(* The parts of the state an operation does not use *)

InstallIdle ==
    /\ target = NoFile /\ backup = NoFile /\ download_data = NoFile
    /\ tempExists = FALSE /\ reports = {} /\ steps = <<>>
    /\ orig0 = NoFile /\ new0 = NoFile

CheckIdle ==
    /\ version = PyStr(<<"0">>) /\ buildnum = PyInt(0)
    /\ verResp = [outcome |-> "none", list |-> <<>>]
    /\ buildResp = [outcome |-> "none", list |-> <<>>]
    /\ fetched = <<>>

ConfigIdle ==
    /\ config = [kind |-> "absent", field |-> PyStr(<<>>)]
    /\ cfgParts = [wf |-> FALSE, prefix |-> <<>>, n |-> <<>>, v |-> <<>>]
    /\ loaded = [kind |-> "none", version |-> PyStr(<<>>), build |-> PyInt(0)]
    /\ use_config = TRUE

DownloadIdle ==
    /\ quiet = FALSE /\ body = <<>> /\ offset = 0 /\ iter = 0 /\ progress = <<>>
    /\ dest0 = NoFile

\* the tokens '' and 'latest'
EmptyToken == PyStr(<<>>)

LatestToken == PyStr(<<"l", "a", "t", "e", "s", "t">>)

\* None, where a token is expected
NoToken == [t |-> "NoneType", v |-> 0]

SelectIdle ==
    /\ availableVersions = <<>>
    /\ val = EmptyToken /\ choice = <<>> /\ default = EmptyToken
    /\ selected = [stat |-> "none", val |-> EmptyToken]

RunIdle ==
    /\ prompt = FALSE
    /\ remoteVersions = <<>> /\ remoteBuilds = <<>>
    /\ default_version = LatestToken /\ default_build = LatestToken
    /\ selVer = NoToken /\ selBuild = NoToken /\ nums = <<>>
    /\ prompts = 0 /\ calls = 0
    /\ exitPath = "none"
    /\ before = <<NoToken, NoToken>>
    /\ requested = <<NoToken, NoToken>>
    /\ exitCode = -1
    /\ update_available = TRUE
    /\ entered = NoToken
    /\ stored = FALSE
    /\ answer = "unasked"

----------------------------------------------------------------------------
(* FileUtil.install and FileUtil._recover_backup *)

\* Fault variant of InstallBackup: a failed backup starts the recovery, as the
\* later steps do, instead of returning at once
InstallBackup_Recovers ==
    /\ pc = "install_backup"
    /\ \E o \in copyfile(target, backup) :
        /\ backup' = o.dst
        /\ steps' = Append(steps, Step("backup", o.ok))
        /\ reports' = IF o.ok THEN reports ELSE reports \cup {"File Backup"}
        /\ pc' = IF o.ok THEN "install_delete" ELSE "recover_delete"
    /\ UNCHANGED <<ret, target, download_data, tempExists, orig0, new0, nonInstallVars>>

\* install(), step 1: copy the target to {tempdir}/backup
InstallBackup ==
    /\ pc = "install_backup"
    /\ \E o \in copyfile(target, backup) :
        /\ backup' = o.dst
        /\ steps' = Append(steps, Step("backup", o.ok))
        /\ IF o.ok
           THEN /\ pc' = "install_delete"
                /\ UNCHANGED <<ret, reports>>
           ELSE /\ reports' = reports \cup {"File Backup"}
                /\ ret' = "False"
                /\ pc' = "install_done"
    /\ UNCHANGED <<target, download_data, tempExists, orig0, new0, nonInstallVars>>

\* Fault variant of InstallDelete: the temp directory is cleaned up as soon as
\* the old file is gone, before the new file is copied in
InstallDelete_CleansEarly ==
    /\ pc = "install_delete"
    /\ \E o \in remove(target) :
        /\ target' = o.f
        /\ steps' = Append(steps, Step("delete", o.ok))
        /\ IF o.ok
           THEN /\ pc' = "install_copy"
                /\ backup' = NoFile
                /\ UNCHANGED reports
           ELSE /\ reports' = reports \cup {"Old File Deletion"}
                /\ pc' = "recover_delete"
                /\ UNCHANGED backup
    /\ UNCHANGED <<ret, download_data, tempExists, orig0, new0, nonInstallVars>>

\* install(), step 2: delete the target; a failure starts the recovery
InstallDelete ==
    /\ pc = "install_delete"
    /\ \E o \in remove(target) :
        /\ target' = o.f
        /\ steps' = Append(steps, Step("delete", o.ok))
        /\ IF o.ok
           THEN /\ pc' = "install_copy"
                /\ UNCHANGED reports
           ELSE /\ reports' = reports \cup {"Old File Deletion"}
                /\ pc' = "recover_delete"
    /\ UNCHANGED <<ret, backup, download_data, tempExists, orig0, new0, nonInstallVars>>

\* Fault variant of InstallCopy: the failed copy-in is reported but install()
\* goes on to the cleanup instead of recovering and returning
InstallCopy_GoesOn ==
    /\ pc = "install_copy"
    /\ \E o \in copyfile(download_data, target) :
        /\ target' = o.dst
        /\ steps' = Append(steps, Step("copy", o.ok))
        /\ reports' = IF o.ok THEN reports ELSE reports \cup {"File Copy"}
        /\ pc' = "install_cleanup"
    /\ UNCHANGED <<ret, backup, download_data, tempExists, orig0, new0, nonInstallVars>>

\* install(), step 3: copy download_data to the target; a failure starts the recovery
InstallCopy ==
    /\ pc = "install_copy"
    /\ \E o \in copyfile(download_data, target) :
        /\ target' = o.dst
        /\ steps' = Append(steps, Step("copy", o.ok))
        /\ IF o.ok
           THEN /\ pc' = "install_cleanup"
                /\ UNCHANGED reports
           ELSE /\ reports' = reports \cup {"File Copy"}
                /\ pc' = "recover_delete"
    /\ UNCHANGED <<ret, backup, download_data, tempExists, orig0, new0, nonInstallVars>>

\* Fault variant of InstallCleanup: install() returns True without cleaning up
InstallCleanup_Keeps ==
    /\ pc = "install_cleanup"
    /\ steps' = Append(steps, Step("cleanup", TRUE))
    /\ ret' = "True"
    /\ pc' = "install_done"
    /\ UNCHANGED <<target, backup, download_data, tempExists, reports, orig0, new0, nonInstallVars>>

\* install(), step 4: self.temp.cleanup() removes the directory and its files.
\* (TemporaryDirectory.cleanup is taken to succeed on the directory the run
\* created itself; the failures modelled are those of the three guarded steps
\* and of the recovery.)
InstallCleanup ==
    /\ pc = "install_cleanup"
    /\ tempExists' = FALSE
    /\ backup' = NoFile
    /\ download_data' = NoFile
    /\ steps' = Append(steps, Step("cleanup", TRUE))
    /\ ret' = "True"
    /\ pc' = "install_done"
    /\ UNCHANGED <<target, reports, orig0, new0, nonInstallVars>>

\* _recover_backup(), first half: delete what is at the target path,
\* tolerating FileNotFoundError; any other failure is critical
RecoverDelete ==
    /\ pc = "recover_delete"
    /\ \E o \in remove(target) :
        /\ target' = o.f
        /\ steps' = Append(steps, Step("recover_delete", o.ok))
        /\ IF o.ok \/ o.err = "FileNotFoundError"
           THEN /\ pc' = "recover_copy"
                /\ UNCHANGED <<ret, reports>>
           ELSE /\ reports' = reports \cup {"critical"}
                /\ ret' = "False"
                /\ pc' = "install_done"
    /\ UNCHANGED <<backup, download_data, tempExists, orig0, new0, nonInstallVars>>

\* Fault variant of RecoverCopy: a failed copy of the backup is swallowed
\* instead of being reported as critical
RecoverCopy_Silent ==
    /\ pc = "recover_copy"
    /\ \E o \in copyfile(backup, target) :
        /\ target' = o.dst
        /\ steps' = Append(steps, Step("recover_copy", o.ok))
        /\ reports' = IF o.ok THEN reports \cup {"recovered"} ELSE reports
    /\ ret' = "False"
    /\ pc' = "install_done"
    /\ UNCHANGED <<backup, download_data, tempExists, orig0, new0, nonInstallVars>>

\* _recover_backup(), second half: copy the backup to the target path
RecoverCopy ==
    /\ pc = "recover_copy"
    /\ \E o \in copyfile(backup, target) :
        /\ target' = o.dst
        /\ steps' = Append(steps, Step("recover_copy", o.ok))
        /\ reports' = reports \cup {IF o.ok THEN "recovered" ELSE "critical"}
    /\ ret' = "False"
    /\ pc' = "install_done"
    /\ UNCHANGED <<backup, download_data, tempExists, orig0, new0, nonInstallVars>>

\* install() is entered from get_new after download() returned True: the
\* temp directory holds download_data and no backup yet
InitInstall ==
    /\ pc = "install_backup"
    /\ ret = "running"
    /\ target \in {File(d) : d \in Contents} \cup {NoFile}
    /\ download_data \in {File(d) : d \in Contents}
    /\ backup = NoFile
    /\ tempExists = TRUE
    /\ reports = {}
    /\ steps = <<>>
    /\ orig0 = target
    /\ new0 = download_data
    /\ CheckIdle
    /\ ConfigIdle
    /\ DownloadIdle
    /\ SelectIdle
    /\ RunIdle

NextInstall ==
    \/ InstallBackup
    \/ InstallDelete
    \/ InstallCopy
    \/ InstallCleanup
    \/ RecoverDelete
    \/ RecoverCopy

SpecInstall == InitInstall /\ [][NextInstall]_vars

----------------------------------------------------------------------------
(* Update._get, Update.get_versions, Update.get_buildnums, ServerUpdater.check *)

\* A listing request has one of these outcomes: urlopen raises, data.read()
\* raises, json.loads raises, the decoded object lacks the expected keys, or
\* the listing arrives.
FetchOutcomes == {"open_fail", "read_fail", "decode_fail", "bad_shape", "ok"}

None == [kind |-> "None", list |-> <<>>]

Raised == [kind |-> "raised", list |-> <<>>]

Listing(l) == [kind |-> "list", list |-> l]

\* _get() followed by json.loads(data.read()) and the subscripts, as
\* get_versions and get_buildnums do: only urlopen is inside a try
get_listing(resp) ==
    CASE resp.outcome = "open_fail" -> None
      [] resp.outcome \in {"read_fail", "decode_fail", "bad_shape"} -> Raised
      [] OTHER -> Listing(resp.list)

get_versions == get_listing(verResp)

get_buildnums == get_listing(buildResp)

\* Fault variant of check_version_differs: the last entry of the list is
\* taken for the newest version
check_version_differs_Last(ver) == ~PyEq(ver[Len(ver)], version)

\* check(): ver[0] != self.version
check_version_differs(ver) == ~PyEq(ver[1], version)

\* check(): build[0] != str(self.buildnum)
check_build_differs(build) == ~PyEq(build[1], str(buildnum))

\* check(), from the fetched build listing on
check_builds(b) ==
    CASE b.kind = "None" -> "False"
      [] b.kind = "raised" -> "raised"
      [] Len(b.list) = 0 -> "raised"
      [] check_build_differs(b.list) -> "True"
      [] OTHER -> "False"

\* ServerUpdater.check(): the result and the requests it sent
check ==
    LET ver == get_versions IN
    CASE ver.kind = "None" -> [ret |-> "False", fetched |-> <<"versions">>]
      [] ver.kind = "raised" -> [ret |-> "raised", fetched |-> <<"versions">>]
      [] Len(ver.list) = 0 -> [ret |-> "raised", fetched |-> <<"versions">>]
      [] check_version_differs(ver.list) -> [ret |-> "True", fetched |-> <<"versions">>]
      [] OTHER -> [ret |-> check_builds(get_buildnums), fetched |-> <<"versions", "builds">>]

Check ==
    /\ pc = "check"
    /\ ret' = check.ret
    /\ fetched' = fetched \o check.fetched
    /\ pc' = "check_done"
    /\ UNCHANGED <<version, buildnum, verResp, buildResp, nonCheckVars>>

VersionTokens == {PyStr(<<"1">>), PyStr(<<"1", ".", "2">>), PyStr(<<"0">>)}

BuildNumbers == {0, 2, 10}

\* a build identifier is an int or a str
BuildTokens == {PyInt(n) : n \in BuildNumbers} \cup {PyStr(DecStr(n)) : n \in BuildNumbers}

SeqsUpTo(S, n) == UNION {[1..k -> S] : k \in 0..n}

Responses(S) ==
    {[outcome |-> o, list |-> <<>>] : o \in FetchOutcomes \ {"ok"}}
        \cup {[outcome |-> "ok", list |-> l] : l \in SeqsUpTo(S, MaxList)}

InitCheck ==
    /\ pc = "check"
    /\ ret = "running"
    /\ version \in VersionTokens
    /\ buildnum \in BuildTokens
    /\ verResp \in Responses(VersionTokens)
    /\ buildResp \in Responses(BuildTokens)
    /\ fetched = <<>>
    /\ InstallIdle
    /\ ConfigIdle
    /\ DownloadIdle
    /\ SelectIdle
    /\ RunIdle

NextCheck == Check

SpecCheck == InitCheck /\ [][NextCheck]_vars

----------------------------------------------------------------------------
(* FileUtil.load_config *)

\* return '0', 0
Sentinel == [kind |-> "tuple", version |-> PyStr(<<"0">>), build |-> PyInt(0)]

\* return version, build
Tuple(v, b) == [kind |-> "tuple", version |-> PyStr(v), build |-> PyInt(b)]

\* an exception leaves load_config
ConfigRaised == [kind |-> "raised", version |-> PyStr(<<>>), build |-> PyInt(0)]

Positions(s, c) == {i \in 1..Len(s) : s[i] = c}

Min(S) == CHOOSE x \in S : \A y \in S : x <= y

Max(S) == CHOOSE x \in S : \A y \in S : x >= y

\* s.split(sep)[-1]: what follows the last sep, or all of s
split_last(s, sep) ==
    IF Positions(s, sep) = {} THEN s ELSE SubSeq(s, Max(Positions(s, sep)) + 1, Len(s))

IsDigit(c) == \E d \in 1..10 : DigitChars[d] = c

DigitVal(c) == (CHOOSE d \in 1..10 : DigitChars[d] = c) - 1

\* int(s) succeeds on a non-empty run of decimal digits.  (int() also takes
\* a sign, underscores and surrounding white space; the strings of this
\* model hold none of these where int() sees them.)
int_ok(s) == Len(s) > 0 /\ \A i \in 1..Len(s) : IsDigit(s[i])

RECURSIVE int(_)
int(s) == IF Len(s) = 0 THEN 0 ELSE 10 * int(SubSeq(s, 1, Len(s) - 1)) + DigitVal(s[Len(s)])

\* Fault variant of version_slice: the closing parenthesis is kept
version_slice_KeepsParen(v) == SubSeq(v, 6, Len(v))

\* version[5:-1]
version_slice(v) == SubSeq(v, 6, Len(v) - 1)

\* the try block of load_config: split on the first space, take the digits
\* after the last '-', cut '(MC: ' and ')' off the rest
parse_current(current) ==
    IF Positions(current, " ") = {}
    THEN Sentinel
    ELSE LET sp == Min(Positions(current, " "))
             build == split_last(SubSeq(current, 1, sp - 1), "-")
             ver == SubSeq(current, sp + 1, Len(current))
         IN  IF int_ok(build) THEN Tuple(version_slice(ver), int(build)) ELSE Sentinel

\* load_config(config) for a file that is absent, not JSON, JSON that is no
\* object, an object without 'currentVersion', or an object with the field
load_config(c) ==
    CASE c.kind = "absent" -> Sentinel
      [] c.kind = "not_json" -> Sentinel
      [] c.kind \in {"non_object", "no_field"} -> ConfigRaised
      [] c.field.t # "str" -> Sentinel
      [] OTHER -> parse_current(c.field.v)

LoadConfig ==
    /\ pc = "load_config"
    /\ loaded' = load_config(config)
    /\ pc' = "load_config_done"
    /\ UNCHANGED <<config, cfgParts, use_config, nonConfigVars>>

\* '<prefix>-<N> (MC: <V>)'
Official(prefix, n, v) == prefix \o <<"-">> \o n \o <<" ", "(", "M", "C", ":", " ">> \o v \o <<")">>

PrefixChars == {"b", "-", " "}

BuildDigits == {"0", "2", "5"}

VersionChars == {"1", ".", " "}

JunkChars == {"b", "-", " ", "2", "(", ")"}

NoParts == [wf |-> FALSE, prefix |-> <<>>, n |-> <<>>, v |-> <<>>]

\* 'build-205 (MC: 1.16.5)'
ExampleParts == [wf |-> TRUE, prefix |-> <<"b", "u", "i", "l", "d">>, n |-> <<"2", "0", "5">>,
                 v |-> <<"1", ".", "1", "6", ".", "5">>]

GeneratedParts ==
    {[wf |-> TRUE, prefix |-> p, n |-> n, v |-> v] :
        p \in SeqsUpTo(PrefixChars, MaxPart),
        n \in SeqsUpTo(BuildDigits, MaxPart) \ {<<>>},
        v \in SeqsUpTo(VersionChars, MaxPart)}

InitConfig ==
    /\ pc = "load_config"
    /\ ret = "running"
    /\ loaded = [kind |-> "none", version |-> PyStr(<<>>), build |-> PyInt(0)]
    /\ use_config = TRUE
    /\ \/ /\ cfgParts \in GeneratedParts \cup {ExampleParts}
          /\ config = [kind |-> "field", field |-> PyStr(Official(cfgParts.prefix, cfgParts.n, cfgParts.v))]
       \/ /\ cfgParts = NoParts
          /\ \/ config \in {[kind |-> k, field |-> PyStr(<<>>)] : k \in {"absent", "not_json", "non_object", "no_field"}}
             \/ config \in {[kind |-> "field", field |-> f] : f \in {PyInt(205), [t |-> "NoneType", v |-> 0]}}
             \/ config \in {[kind |-> "field", field |-> PyStr(j)] : j \in SeqsUpTo(JunkChars, MaxJunk)}
    /\ InstallIdle
    /\ CheckIdle
    /\ DownloadIdle
    /\ SelectIdle
    /\ RunIdle

NextConfig == LoadConfig

SpecConfig == InitConfig /\ [][NextConfig]_vars

----------------------------------------------------------------------------
(* Update.download and Update._progress_bar *)

blocksize == 4608

\* ceil(length/blocksize)
ceil_blocks(length) == (length + blocksize - 1) \div blocksize

\* Fault variant of total: only the full blocks are counted
total_FullBlocks(length) == length \div blocksize

\* the number of iterations download() asks _progress_bar for:
\* ceil(length/blocksize) + 1
total(length) == ceil_blocks(length) + 1

\* int(data.getheader('content-length'))
length == Len(body)

\* data.read(blocksize): the next blocksize bytes, fewer at the end of the body
read(n) == SubSeq(body, offset + 1, IF offset + n <= Len(body) THEN offset + n ELSE Len(body))

\* Fault variant of progress_value: the last iteration is not special-cased
progress_value_Overshoot(k) == k * blocksize

\* what _progress_bar writes after iteration k: k*step, or end on the last one
progress_value(k) == IF k < total(length) - 1 THEN k * blocksize ELSE length

\* download() up to the loop: urlopen raises URLError (reported, False); or
\* int(data.getheader('content-length')) raises on a missing or non-numeric
\* header, or open(path, mode='ba') raises, both outside any try; or the
\* request opens and the destination is opened in mode 'ba', which creates a
\* missing file and keeps the bytes of an existing one
DownloadOpen ==
    /\ pc = "download_open"
    /\ \/ /\ reports' = reports \cup {"File Download"}
          /\ ret' = "False"
          /\ pc' = "download_done"
          /\ UNCHANGED download_data
       \/ /\ ret' = "raised"
          /\ pc' = "download_done"
          /\ UNCHANGED <<download_data, reports>>
       \/ /\ download_data' = File(download_data.data)
          /\ pc' = "download_loop"
          /\ UNCHANGED <<reports, ret>>
    /\ UNCHANGED <<quiet, body, offset, iter, progress, dest0, nonDownloadVars>>

\* Fault variant of DownloadChunkQ: in quiet mode the block that was read is
\* not written to the file
DownloadChunkQ_SkipsWrite(q) ==
    /\ pc = "download_loop"
    /\ iter < total(length)
    /\ \/ /\ download_data' = IF q THEN download_data
                             ELSE File(download_data.data \o read(blocksize))
          /\ offset' = offset + Len(read(blocksize))
          /\ progress' = IF q THEN progress ELSE Append(progress, progress_value(iter))
          /\ iter' = iter + 1
          /\ UNCHANGED <<pc, ret, reports>>
       \/ /\ reports' = reports \cup {"File Download"}
          /\ ret' = "False"
          /\ pc' = "download_done"
          /\ UNCHANGED <<download_data, offset, progress, iter>>
    /\ UNCHANGED <<quiet, body, dest0, nonDownloadVars>>

\* the iteration below where args.quiet reads as q
DownloadChunkQ(q) ==
    /\ pc = "download_loop"
    /\ iter < total(length)
    /\ \/ /\ download_data' = File(download_data.data \o read(blocksize))
          /\ offset' = offset + Len(read(blocksize))
          /\ progress' = IF q THEN progress ELSE Append(progress, progress_value(iter))
          /\ iter' = iter + 1
          /\ UNCHANGED <<pc, ret, reports>>
       \/ /\ reports' = reports \cup {"File Download"}
          /\ ret' = "False"
          /\ pc' = "download_done"
          /\ UNCHANGED <<download_data, offset, progress, iter>>
    /\ UNCHANGED <<quiet, body, dest0, nonDownloadVars>>

\* one iteration of the loop: read a block and append it to the file; then
\* _progress_bar resumes and writes the counter unless quiet.  A read that
\* raises is reported, the file is closed and download() returns False.
DownloadChunk == DownloadChunkQ(quiet)

\* the loop is over: file.close(), return True
DownloadComplete ==
    /\ pc = "download_loop"
    /\ iter >= total(length)
    /\ ret' = "True"
    /\ pc' = "download_done"
    /\ UNCHANGED <<download_data, reports, downloadVars, nonDownloadVars>>

\* the body lengths tried: around every multiple of the block size
Lengths == {k * blocksize + d : k \in 0..MaxBlocks, d \in {0, 1, blocksize - 1}}

\* the byte at offset k of the body is named k, so that a lost, repeated or
\* misplaced byte shows
BodyOf(n) == [k \in 1..n |-> k]

InitDownload ==
    /\ pc = "download_open"
    /\ ret = "running"
    /\ quiet \in BOOLEAN
    /\ body \in {BodyOf(n) : n \in Lengths}
    /\ offset = 0
    /\ iter = 0
    /\ progress = <<>>
    /\ download_data \in {NoFile, File(<<>>), File(<<0>>)}
    /\ dest0 = download_data
    /\ tempExists = TRUE
    /\ target = NoFile /\ backup = NoFile /\ reports = {} /\ steps = <<>>
    /\ orig0 = NoFile /\ new0 = NoFile
    /\ CheckIdle
    /\ ConfigIdle
    /\ SelectIdle
    /\ RunIdle

NextDownload ==
    \/ DownloadOpen
    \/ DownloadChunk
    \/ DownloadComplete

SpecDownload == InitDownload /\ [][NextDownload]_vars

----------------------------------------------------------------------------
(* ServerUpdater._select *)

SelectRaised == [stat |-> "raised", val |-> EmptyToken]

\* val in choice
In(v, ch) == \E k \in 1..Len(ch) : PyEq(ch[k], v)

\* Fault variant of with_default: an empty input is not replaced
with_default_Kept(v, d) == v

\* if val == '': val = default
with_default(v, d) == IF PyEq(v, EmptyToken) THEN d ELSE v

\* _select(val, choice, default, name): 'latest' formats
\* self._available_versions[0] into its message and returns choice[0], both of
\* which raise IndexError on an empty list; another value must be in choice
\* Fault variant of _select: 'latest' takes the last candidate, not the first
_select_Last(v, ch, d) ==
    LET v1 == with_default(v, d) IN
    CASE PyEq(v1, LatestToken) /\ (Len(availableVersions) = 0 \/ Len(ch) = 0) -> SelectRaised
      [] PyEq(v1, LatestToken) -> [stat |-> "True", val |-> ch[Len(ch)]]
      [] ~In(v1, ch) -> [stat |-> "False", val |-> EmptyToken]
      [] OTHER -> [stat |-> "True", val |-> v1]

_select(v, ch, d) ==
    LET v1 == with_default(v, d) IN
    CASE PyEq(v1, LatestToken) /\ (Len(availableVersions) = 0 \/ Len(ch) = 0) -> SelectRaised
      [] PyEq(v1, LatestToken) -> [stat |-> "True", val |-> ch[1]]
      [] ~In(v1, ch) -> [stat |-> "False", val |-> EmptyToken]
      [] OTHER -> [stat |-> "True", val |-> v1]

Select ==
    /\ pc = "select"
    /\ selected' = _select(val, choice, default)
    /\ pc' = "select_done"
    /\ UNCHANGED <<availableVersions, val, choice, default, nonSelectVars>>

\* the candidates of a selection: version strings, or builds as str or int
SelectTokens == {PyStr(<<"1">>), PyStr(<<"2">>), PyInt(2)}

\* _select is called by version_select with the cached version list as
\* choice, or with a build list once a version of the cached list is selected
InitSelect ==
    /\ pc = "select"
    /\ ret = "running"
    /\ val \in SelectTokens \cup {EmptyToken, LatestToken}
    /\ default \in SelectTokens \cup {EmptyToken, LatestToken}
    /\ choice \in SeqsUpTo(SelectTokens, MaxList)
    /\ availableVersions \in {choice, <<PyStr(<<"1">>)>>}
    /\ selected = [stat |-> "none", val |-> EmptyToken]
    /\ InstallIdle
    /\ version \in VersionTokens
    /\ buildnum \in {PyInt(0), PyStr(<<"2">>)}
    /\ verResp = [outcome |-> "none", list |-> <<>>]
    /\ buildResp = [outcome |-> "none", list |-> <<>>]
    /\ fetched = <<>>
    /\ ConfigIdle
    /\ DownloadIdle
    /\ RunIdle

NextSelect == Select

SpecSelect == InitSelect /\ [][NextSelect]_vars

----------------------------------------------------------------------------
(* ServerUpdater.version_select, ServerUpdater.get_new and __main__ *)

V1 == PyStr(<<"1">>)

V2 == PyStr(<<"1", ".", "2">>)

\* the versions the API knows; a request for another version is answered 404
RunVersions == {V1, V2}

RunVersionLists == {<<>>, <<V1, V2>>, <<V2, V1>>}

\* build lists as the API serves them: decoded JSON numbers or strings
StrBuilds == <<PyStr(<<"1", "0">>), PyStr(<<"2">>)>>

IntBuilds == <<PyInt(2)>>

RunBuildMaps ==
    {[v \in RunVersions |-> IF v = V1 THEN StrBuilds ELSE IntBuilds],
     [v \in RunVersions |-> IF v = V1 THEN IntBuilds ELSE StrBuilds],
     [v \in RunVersions |-> IF v = V1 THEN <<>> ELSE StrBuilds]}

\* what the user may type at a version or build prompt
UserTokens == {EmptyToken, LatestToken, V1, PyStr(<<"2">>)}

\* the defaults given with -v and -b: 'latest' unless set
RunDefaults == {<<LatestToken, LatestToken>>, <<V2, PyStr(<<"2">>)>>}

\* what the user may type at the (Y/N) prompt
ConfirmInputs == {"n", "N", "NO", "y", ""}

\* inp.lower()
lower(inp) == CASE inp = "N" -> "n" [] inp = "NO" -> "no" [] OTHER -> inp

RunBodies == {BodyOf(1)}

\* the answers one listing request may get: a failure, or the list served
RunAnswers(l) ==
    {[outcome |-> o, list |-> <<>>] : o \in {"open_fail", "read_fail"}}
        \cup {[outcome |-> "ok", list |-> l]}

\* the answers to GET {base}/{version}: 404 for a version the API does not know
BuildAnswers(v) ==
    IF v \in RunVersions THEN RunAnswers(remoteBuilds[v])
    ELSE {[outcome |-> "open_fail", list |-> <<>>]}

NoAnswer == [outcome |-> "none", list |-> <<>>]

fsVars == <<target, backup, download_data, tempExists, reports, steps, orig0, new0>>

transferVars == <<body, offset, iter, progress, dest0>>

argVars == <<quiet, prompt, default_version, default_build, remoteVersions, remoteBuilds,
             config, cfgParts, loaded, use_config, val, choice, default, selected>>

\* a call starts: the locals of the calls before it, and what was recorded
\* of them, are gone
NewFrame ==
    /\ selVer' = NoToken /\ selBuild' = NoToken /\ nums' = <<>>
    /\ requested' = <<NoToken, NoToken>>
    /\ prompts' = 0
    /\ entered' = NoToken
    /\ body' = <<>> /\ offset' = 0 /\ iter' = 0 /\ progress' = <<>> /\ dest0' = NoFile
    /\ steps' = <<>> /\ orig0' = NoFile /\ new0' = NoFile
    /\ fetched' = <<>>
    /\ answer' = "unasked"

\* what lasts from one call to the next, but for the installed state
lastingVars == <<target, backup, download_data, tempExists, reports, availableVersions, argVars,
                 exitCode, update_available, stored>>

\* serv.check() is called (from __main__ or by a user of the class); the
\* build request is only answered when check() gets to send it
CallCheck ==
    /\ pc = "idle"
    /\ calls < MaxCalls
    /\ calls' = calls + 1
    /\ before' = <<version, buildnum>>
    /\ verResp' \in RunAnswers(remoteVersions)
    /\ IF verResp'.outcome = "ok" /\ Len(verResp'.list) > 0 /\ PyEq(verResp'.list[1], version)
       THEN buildResp' \in BuildAnswers(version)
       ELSE buildResp' = NoAnswer
    /\ NewFrame
    /\ ret' = "running"
    /\ pc' = "check"
    /\ UNCHANGED <<version, buildnum, exitPath, lastingVars>>

\* update_available = serv.check(); an exception ends the process with a traceback
ReturnCheck ==
    /\ pc = "check_done"
    /\ IF ret = "raised"
       THEN /\ pc' = "exited"
            /\ exitCode' = 1
            /\ UNCHANGED update_available
       ELSE /\ pc' = "idle"
            /\ update_available' = (ret = "True")
            /\ UNCHANGED exitCode
    /\ verResp' = NoAnswer /\ buildResp' = NoAnswer /\ fetched' = <<>>
    /\ UNCHANGED <<ret, version, buildnum, availableVersions, fsVars,
                   transferVars, argVars, selVer, selBuild, nums, prompts, calls, exitPath, before,
                   requested, entered, stored, answer>>

\* serv.get_new(default_version, default_build) is called and enters version_select
CallGetNew ==
    /\ pc = "idle"
    /\ calls < MaxCalls
    /\ calls' = calls + 1
    /\ before' = <<version, buildnum>>
    /\ ret' = "running"
    /\ exitPath' = "running"
    /\ NewFrame
    /\ pc' = "vs_fetch"
    /\ UNCHANGED <<version, buildnum, verResp, buildResp, lastingVars>>

\* what a step of get_new leaves alone, besides what it names itself
getNewFrame == <<version, buildnum, verResp, buildResp, fsVars, transferVars, argVars, calls, before,
                 requested, update_available, answer>>

\* version_select: if not self._available_versions, fetch and store the list
VersionFetch ==
    /\ pc = "vs_fetch"
    /\ IF availableVersions # <<>>
       THEN /\ pc' = "vs_version"
            /\ UNCHANGED <<availableVersions, fetched, exitPath, exitCode, stored>>
       ELSE \E a \in RunAnswers(remoteVersions) :
            /\ fetched' = Append(fetched, "versions")
            /\ CASE a.outcome = "open_fail" ->
                        /\ pc' = "idle"
                        /\ exitPath' = "select_failed"
                        /\ UNCHANGED <<availableVersions, exitCode, stored>>
                 [] a.outcome = "read_fail" ->
                        /\ pc' = "exited"
                        /\ exitCode' = 1
                        /\ UNCHANGED <<availableVersions, exitPath, stored>>
                 [] OTHER ->
                        /\ availableVersions' = a.list
                        /\ stored' = TRUE
                        /\ pc' = "vs_version"
                        /\ UNCHANGED <<exitPath, exitCode>>
    /\ UNCHANGED <<ret, selVer, selBuild, nums, prompts, entered, getNewFrame>>

\* what follows a call of _select in a prompt loop (retry on rejection) or
\* without prompt (a rejection returns None, None)
AfterSelect(r, next) ==
    CASE r.stat = "raised" ->
            /\ pc' = "exited"
            /\ exitCode' = 1
            /\ UNCHANGED <<prompts, exitPath>>
      [] r.stat = "True" ->
            /\ pc' = next
            /\ prompts' = 0
            /\ UNCHANGED <<exitPath, exitCode>>
      [] prompt ->
            /\ prompts < MaxPrompts
            /\ prompts' = prompts + 1
            /\ UNCHANGED <<pc, exitPath, exitCode>>
      [] OTHER ->
            /\ pc' = "idle"
            /\ exitPath' = "select_failed"
            /\ UNCHANGED <<prompts, exitCode>>

\* the value entered: input() when prompting, '' otherwise
Entered == IF prompt THEN UserTokens ELSE {EmptyToken}

\* version_select: select the version
VersionPick ==
    /\ pc = "vs_version"
    /\ \E tok \in Entered :
        LET r == _select(tok, availableVersions, default_version) IN
        /\ AfterSelect(r, "vs_builds")
        /\ entered' = tok
        /\ selVer' = IF r.stat = "True" THEN r.val ELSE selVer
    /\ UNCHANGED <<ret, availableVersions, fetched, selBuild, nums, stored, getNewFrame>>

\* version_select: nums = self.update.get_buildnums(ver)
BuildFetch ==
    /\ pc = "vs_builds"
    /\ \E a \in BuildAnswers(selVer) :
        /\ fetched' = Append(fetched, "builds")
        /\ CASE a.outcome = "open_fail" ->
                    /\ pc' = "idle"
                    /\ exitPath' = "select_failed"
                    /\ UNCHANGED <<nums, exitCode>>
             [] a.outcome = "read_fail" ->
                    /\ pc' = "exited"
                    /\ exitCode' = 1
                    /\ UNCHANGED <<nums, exitPath>>
             [] OTHER ->
                    /\ nums' = a.list
                    /\ pc' = "vs_build"
                    /\ UNCHANGED <<exitPath, exitCode>>
    /\ UNCHANGED <<ret, availableVersions, selVer, selBuild, prompts, entered, stored, getNewFrame>>

\* version_select: select the build
BuildPick ==
    /\ pc = "vs_build"
    /\ \E tok \in Entered :
        LET r == _select(tok, nums, default_build) IN
        /\ AfterSelect(r, "gn_confirm")
        /\ entered' = tok
        /\ selBuild' = IF r.stat = "True" THEN r.val ELSE selBuild
    /\ UNCHANGED <<ret, availableVersions, fetched, selVer, nums, stored, getNewFrame>>

\* Fault variant of Confirm: a temp directory left by an earlier attempt is
\* used again instead of a new one
Confirm_KeepsDir ==
    /\ pc = "gn_confirm"
    /\ answer' \in (IF prompt THEN ConfirmInputs ELSE {"unasked"})
    /\ IF prompt /\ lower(answer') \in {"n", "no"}
       THEN /\ pc' = "idle"
            /\ exitPath' = "declined"
            /\ UNCHANGED <<tempExists, download_data, backup, body, offset, iter, progress, dest0,
                           requested>>
       ELSE /\ tempExists' = TRUE
            /\ download_data' = IF tempExists THEN download_data ELSE NoFile
            /\ backup' = IF tempExists THEN backup ELSE NoFile
            /\ body' \in RunBodies
            /\ offset' = 0 /\ iter' = 0 /\ progress' = <<>>
            /\ dest0' = NoFile
            /\ requested' = <<str(selVer), str(selBuild)>>
            /\ pc' = "download_open"
            /\ UNCHANGED exitPath
    /\ entered' = NoToken
    /\ UNCHANGED <<ret, version, buildnum, verResp, buildResp, fetched, availableVersions, target,
                   reports, steps, orig0, new0, argVars, selVer, selBuild, nums, prompts, calls, before,
                   exitCode, update_available, stored>>

\* get_new: version_select has returned a selection; the (Y/N) question when prompting; then create_temp_dir() and
\* the call of download() for the selected version and build
Confirm ==
    /\ pc = "gn_confirm"
    /\ answer' \in (IF prompt THEN ConfirmInputs ELSE {"unasked"})
    /\ IF prompt /\ lower(answer') \in {"n", "no"}
       THEN /\ pc' = "idle"
            /\ exitPath' = "declined"
            /\ UNCHANGED <<tempExists, download_data, backup, body, offset, iter, progress, dest0,
                           requested>>
       ELSE /\ tempExists' = TRUE
            /\ download_data' = NoFile
            /\ backup' = NoFile
            /\ body' \in RunBodies
            /\ offset' = 0 /\ iter' = 0 /\ progress' = <<>>
            /\ dest0' = NoFile
            /\ requested' = <<str(selVer), str(selBuild)>>
            /\ pc' = "download_open"
            /\ UNCHANGED exitPath
    /\ entered' = NoToken
    /\ UNCHANGED <<ret, version, buildnum, verResp, buildResp, fetched, availableVersions, target,
                   reports, steps, orig0, new0, argVars, selVer, selBuild, nums, prompts, calls, before,
                   exitCode, update_available, stored>>

\* Fault variant of AfterDownload: install() is called when download()
\* returned False, too
AfterDownload_Installs ==
    /\ pc = "download_done"
    /\ CASE ret = "raised" ->
                /\ pc' = "exited"
                /\ exitCode' = 1
                /\ UNCHANGED <<ret, exitPath, steps, orig0, new0>>
         [] OTHER ->
                /\ pc' = "install_backup"
                /\ ret' = "running"
                /\ steps' = <<>>
                /\ orig0' = target
                /\ new0' = download_data
                /\ UNCHANGED <<exitPath, exitCode>>
    /\ UNCHANGED <<version, buildnum, verResp, buildResp, fetched, availableVersions, target, backup,
                   download_data, tempExists, reports, transferVars, argVars, selVer, selBuild, nums,
                   prompts, calls, before, requested, update_available, entered, stored, answer>>

\* get_new: download() has returned; install() is called after True
AfterDownload ==
    /\ pc = "download_done"
    /\ CASE ret = "raised" ->
                /\ pc' = "exited"
                /\ exitCode' = 1
                /\ UNCHANGED <<ret, exitPath, steps, orig0, new0>>
         [] ret = "False" ->
                /\ pc' = "idle"
                /\ exitPath' = "download_failed"
                /\ UNCHANGED <<ret, exitCode, steps, orig0, new0>>
         [] OTHER ->
                /\ pc' = "install_backup"
                /\ ret' = "running"
                /\ steps' = <<>>
                /\ orig0' = target
                /\ new0' = download_data
                /\ UNCHANGED <<exitPath, exitCode>>
    /\ UNCHANGED <<version, buildnum, verResp, buildResp, fetched, availableVersions, target, backup,
                   download_data, tempExists, reports, transferVars, argVars, selVer, selBuild, nums,
                   prompts, calls, before, requested, update_available, entered, stored, answer>>

\* Fault variant of AfterInstall: the installed state is updated whatever
\* install() returned
AfterInstall_Always ==
    /\ pc = "install_done"
    /\ version' = selVer
    /\ buildnum' = selBuild
    /\ exitPath' = IF ret = "True" THEN "updated" ELSE "install_failed"
    /\ pc' = "idle"
    /\ UNCHANGED <<ret, verResp, buildResp, fetched, availableVersions, fsVars, transferVars, argVars,
                   selVer, selBuild, nums, prompts, calls, before, requested, exitCode,
                   update_available, entered, stored, answer>>

\* get_new: install() has returned; after True self.version and self.buildnum
\* are set to the selection
AfterInstall ==
    /\ pc = "install_done"
    /\ IF ret = "True"
       THEN /\ version' = selVer
            /\ buildnum' = selBuild
            /\ exitPath' = "updated"
       ELSE /\ exitPath' = "install_failed"
            /\ UNCHANGED <<version, buildnum>>
    /\ pc' = "idle"
    /\ UNCHANGED <<ret, verResp, buildResp, fetched, availableVersions, fsVars, transferVars, argVars,
                   selVer, selBuild, nums, prompts, calls, before, requested, exitCode,
                   update_available, entered, stored, answer>>

\* the script reaches its end: the process exits with status 0
Exit ==
    /\ pc = "idle"
    /\ pc' = "exited"
    /\ exitCode' = 0
    /\ UNCHANGED <<ret, version, buildnum, verResp, buildResp, fetched, availableVersions, fsVars,
                   transferVars, argVars, selVer, selBuild, nums, prompts, calls, exitPath, before,
                   requested, update_available, entered, stored, answer>>

\* a ServerUpdater has been constructed for an existing target file
InitRun ==
    /\ pc = "idle"
    /\ ret = "running"
    /\ target = File(<<0>>)
    /\ backup = NoFile /\ download_data = NoFile /\ tempExists = FALSE
    /\ reports = {} /\ steps = <<>> /\ orig0 = NoFile /\ new0 = NoFile
    /\ version \in {PyStr(<<"0">>), V1}
    /\ buildnum \in {PyInt(0), PyInt(2)}
    /\ verResp = NoAnswer /\ buildResp = NoAnswer /\ fetched = <<>>
    /\ ConfigIdle
    /\ quiet \in BOOLEAN
    /\ body = <<>> /\ offset = 0 /\ iter = 0 /\ progress = <<>> /\ dest0 = NoFile
    /\ SelectIdle
    /\ prompt \in BOOLEAN
    /\ remoteVersions \in RunVersionLists
    /\ remoteBuilds \in RunBuildMaps
    /\ \E d \in RunDefaults : default_version = d[1] /\ default_build = d[2]
    /\ selVer = NoToken /\ selBuild = NoToken /\ nums = <<>>
    /\ prompts = 0 /\ calls = 0
    /\ exitPath = "none"
    /\ before = <<NoToken, NoToken>>
    /\ requested = <<NoToken, NoToken>>
    /\ exitCode = -1
    /\ update_available = TRUE
    /\ entered = NoToken
    /\ stored = FALSE
    /\ answer = "unasked"

NextRun ==
    \/ CallCheck
    \/ Check
    \/ ReturnCheck
    \/ CallGetNew
    \/ VersionFetch
    \/ VersionPick
    \/ BuildFetch
    \/ BuildPick
    \/ Confirm
    \/ DownloadOpen
    \/ DownloadChunk
    \/ DownloadComplete
    \/ AfterDownload
    \/ InstallBackup
    \/ InstallDelete
    \/ InstallCopy
    \/ InstallCleanup
    \/ RecoverDelete
    \/ RecoverCopy
    \/ AfterInstall
    \/ Exit

SpecRun == InitRun /\ [][NextRun]_vars

\* a step of the run where args.quiet reads as q: output() and _progress_bar
\* are the only readers of the flag, and only the progress counter is modelled
NextRunQ(q) ==
    \/ CallCheck
    \/ Check
    \/ ReturnCheck
    \/ CallGetNew
    \/ VersionFetch
    \/ VersionPick
    \/ BuildFetch
    \/ BuildPick
    \/ Confirm
    \/ DownloadOpen
    \/ DownloadChunkQ(q)
    \/ DownloadComplete
    \/ AfterDownload
    \/ InstallBackup
    \/ InstallDelete
    \/ InstallCopy
    \/ InstallCleanup
    \/ RecoverDelete
    \/ RecoverCopy
    \/ AfterInstall
    \/ Exit

----------------------------------------------------------------------------
(* ServerUpdater.__init__ and ServerUpdater._start *)

\* the version argument: the default None, the sentinel '0' that -iv
\* defaults to, or a version
VersionArgs == {NoToken, PyStr(<<"0">>), V1}

\* the build argument: the default None, the sentinel 0 that -ib defaults
\* to, a build number, or the str that -ib gives when set
BuildArgs == {NoToken, PyInt(0), PyInt(5), PyStr(<<"0">>), PyStr(<<"5">>)}

\* version-history files: none, one that is no JSON, the official form, and
\* one whose field is a number
StartConfigs ==
    {[kind |-> "absent", field |-> PyStr(<<>>)],
     [kind |-> "not_json", field |-> PyStr(<<>>)],
     [kind |-> "field", field |-> PyStr(Official(ExampleParts.prefix, ExampleParts.n, ExampleParts.v))],
     [kind |-> "field", field |-> PyInt(205)]}

\* _start: temp_version, temp_build = '0', 0, or what load_config returns
temp(c) == IF use_config THEN load_config(c) ELSE Sentinel

\* _start: self.version if self.version != '0' else temp_version
start_version(r) == IF ~PyEq(version, PyStr(<<"0">>)) THEN version ELSE r.version

\* _start: self.buildnum if self.buildnum != 0 else temp_build
start_build(r) == IF ~PyEq(buildnum, PyInt(0)) THEN buildnum ELSE r.build

\* ServerUpdater(...): the arguments are stored, then _start replaces the
\* sentinels; an exception of load_config leaves the constructor
Start ==
    /\ pc = "start"
    /\ loaded' = IF use_config THEN load_config(config) ELSE loaded
    /\ IF temp(config).kind = "raised"
       THEN /\ ret' = "raised"
            /\ UNCHANGED <<version, buildnum>>
       ELSE /\ ret' = "constructed"
            /\ version' = start_version(temp(config))
            /\ buildnum' = start_build(temp(config))
    /\ pc' = "start_done"
    /\ UNCHANGED <<target, backup, download_data, tempExists, reports, steps, orig0, new0, verResp,
                   buildResp, fetched, config, cfgParts, use_config, downloadVars, selectVars, runVars>>

\* the constructor is entered: self.version and self.buildnum hold the arguments
InitStart ==
    /\ pc = "start"
    /\ ret = "running"
    /\ InstallIdle
    /\ version \in VersionArgs
    /\ buildnum \in BuildArgs
    /\ verResp = NoAnswer /\ buildResp = NoAnswer /\ fetched = <<>>
    /\ config \in StartConfigs
    /\ cfgParts = IF config.kind = "field" /\ config.field.t = "str" THEN ExampleParts ELSE NoParts
    /\ loaded = [kind |-> "none", version |-> PyStr(<<>>), build |-> PyInt(0)]
    /\ use_config \in BOOLEAN
    /\ DownloadIdle
    /\ SelectIdle
    /\ prompt \in BOOLEAN
    /\ remoteVersions = <<>> /\ remoteBuilds = <<>>
    /\ default_version = LatestToken /\ default_build = LatestToken
    /\ selVer = NoToken /\ selBuild = NoToken /\ nums = <<>>
    /\ prompts = 0 /\ calls = 0
    /\ exitPath = "none"
    /\ before = <<version, buildnum>>
    /\ requested = <<NoToken, NoToken>>
    /\ exitCode = -1
    /\ update_available = TRUE
    /\ entered = NoToken
    /\ stored = FALSE
    /\ answer = "unasked"

NextStart == Start

SpecStart == InitStart /\ [][NextStart]_vars

----------------------------------------------------------------------------
(* The whole model: one run of any of the operations *)

Init == InitInstall \/ InitCheck \/ InitConfig \/ InitDownload \/ InitSelect \/ InitRun \/ InitStart

Next == NextInstall \/ NextCheck \/ NextConfig \/ NextDownload \/ NextSelect \/ NextRun \/ NextStart

Spec == Init /\ [][Next]_vars

----------------------------------------------------------------------------
(* Properties of install() *)

\* install() or _recover_backup() is running
InInstall == pc \in {"install_backup", "install_delete", "install_copy", "install_cleanup",
                     "recover_delete", "recover_copy"}

StepFailed(op) == \E i \in 1..Len(steps) : steps[i].op = op /\ ~steps[i].ok

StepSucceeded(op) == \E i \in 1..Len(steps) : steps[i].op = op /\ steps[i].ok

\* C1: in every state during or after install(), if the target holds neither
\* the complete original nor the complete new content, then the complete
\* backup is still in the temp directory or a critical recovery failure has
\* been reported.
C1_BackupOrCritical ==
    (target # orig0 /\ target # new0)
        => \/ tempExists /\ backup = orig0
           \/ "critical" \in reports

\* the copy-in failed and left a partial file at the target, with the backup intact
C1_Witness ==
    /\ pc = "recover_delete"
    /\ StepFailed("copy")
    /\ target.exists /\ target # orig0 /\ target # new0
    /\ backup = orig0
    /\ "critical" \notin reports

\* C2: once install() has finished after a failed delete or copy-in, it has
\* returned False and the target is the original file again, or recovery
\* failed and was reported as critical.
C2_RecoveredOrCritical ==
    (pc = "install_done" /\ (StepFailed("delete") \/ StepFailed("copy")))
        => /\ ret = "False"
           /\ target = orig0 \/ "critical" \in reports

\* a copy-in that left a partial file was undone by a successful recovery
C2_Witness ==
    /\ pc = "install_done"
    /\ StepFailed("copy")
    /\ \E i \in 1..Len(steps) : steps[i].op = "recover_delete" /\ steps[i].ok
    /\ "recovered" \in reports
    /\ target = orig0
    /\ orig0 # new0

\* C3: if the backup copy fails, install() returns False right away: the
\* failure is reported, neither the delete nor the recovery is attempted and
\* the target is what it was.
C3_BackupFailureLeavesTarget ==
    StepFailed("backup")
        => /\ pc = "install_done"
           /\ ret = "False"
           /\ "File Backup" \in reports
           /\ steps = <<Step("backup", FALSE)>>
           /\ target = orig0

\* the backup of an existing target failed, leaving a partial backup file
C3_Witness ==
    /\ pc = "install_done"
    /\ StepFailed("backup")
    /\ orig0.exists
    /\ backup.exists /\ backup # orig0

InstallSequence == {"backup", "delete", "copy", "cleanup"}

\* some step before the k-th was op and succeeded
DoneBefore(op, k) == \E j \in 1..(k - 1) : steps[j].op = op /\ steps[j].ok

\* C19: install() runs backup, delete, copy-in, cleanup in this order and
\* stops at the first failure: the target is deleted only after a successful
\* backup, the new file copied in only after a successful delete, the temp
\* directory removed only after a successful copy-in, and no step of the
\* sequence follows a failed one.
C19_StepsInOrder ==
    /\ \A k \in 1..Len(steps) :
        /\ steps[k].op \in {"delete", "recover_delete"} => DoneBefore("backup", k)
        /\ steps[k].op = "copy" => DoneBefore("delete", k)
        /\ steps[k].op = "cleanup" => DoneBefore("copy", k)
        /\ steps[k].op \in InstallSequence =>
            \A j \in 1..(k - 1) : steps[j].op \in InstallSequence => steps[j].ok
    /\ (target # orig0 /\ InInstall) => StepSucceeded("backup")
    /\ (~tempExists /\ pc = "install_done") => StepSucceeded("copy")

\* the delete failed after a successful backup and only the recovery followed
C19_Witness ==
    /\ pc = "install_done"
    /\ Len(steps) = 4
    /\ steps[1] = Step("backup", TRUE)
    /\ steps[2] = Step("delete", FALSE)
    /\ steps[3].op = "recover_delete"
    /\ steps[4].op = "recover_copy"

----------------------------------------------------------------------------
(* Properties of check() *)

FetchFailures == {"open_fail", "read_fail", "decode_fail"}

VersionFetchFailed == verResp.outcome \in FetchFailures

BuildFetchFailed == "builds" \in {fetched[i] : i \in 1..Len(fetched)} /\ buildResp.outcome \in FetchFailures

BothFetched == verResp.outcome = "ok" /\ buildResp.outcome = "ok"

\* two build identifiers are the same identifier when they are written the same
SameIdentifier(a, b) == str(a).v = str(b).v

\* C5: check() returns False whenever the version fetch or the build fetch
\* fails while opening the request, reading the body or decoding it; no
\* exception escapes.
C5_FetchFailureReturnsFalse ==
    (pc = "check_done" /\ (VersionFetchFailed \/ BuildFetchFailed)) => ret = "False"

\* C6: when the newest remote version differs from the installed version,
\* check() returns True and has requested only the version list.
C6_NewVersionReturnsTrue ==
    (pc = "check_done" /\ verResp.outcome = "ok" /\ Len(verResp.list) > 0
        /\ ~PyEq(verResp.list[1], version))
        => ret = "True" /\ fetched = <<"versions">>

\* the newest version differs while an older entry of the list is the installed one
C6_Witness ==
    /\ pc = "check_done"
    /\ verResp.outcome = "ok" /\ Len(verResp.list) = 2
    /\ ~PyEq(verResp.list[1], version)
    /\ PyEq(verResp.list[2], version)
    /\ ret = "True"

\* C7: with the newest remote version installed and both fetches successful,
\* check() returns True exactly when the newest remote build and the installed
\* build are different identifiers, whether each is an int or a str.
C7_BuildComparison ==
    (pc = "check_done" /\ BothFetched /\ Len(verResp.list) > 0 /\ Len(buildResp.list) > 0
        /\ PyEq(verResp.list[1], version))
        => /\ ret \in {"True", "False"}
           /\ ret = "True" <=> ~SameIdentifier(buildResp.list[1], buildnum)

----------------------------------------------------------------------------
(* Properties of load_config() *)

HasNoSpace(s) == \A i \in 1..Len(s) : s[i] # " "

\* s reads '<prefix>-<N> (MC: <V>)' for some prefix, decimal N and V
IsOfficialShape(s) ==
    \E i \in 1..Len(s) : \E j \in (i + 2)..Len(s) :
        /\ s[i] = "-"
        /\ \A k \in (i + 1)..(j - 1) : IsDigit(s[k])
        /\ j + 6 <= Len(s)
        /\ SubSeq(s, j, j + 5) = <<" ", "(", "M", "C", ":", " ">>
        /\ s[Len(s)] = ")"

Malformed(c) ==
    \/ c.kind \in {"absent", "not_json", "non_object", "no_field"}
    \/ c.kind = "field" /\ c.field.t # "str"
    \/ c.kind = "field" /\ c.field.t = "str" /\ ~IsOfficialShape(c.field.v)

\* C8: for every malformed or missing input load_config returns the sentinel
\* ('0', 0) and raises nothing.
C8_MalformedGivesSentinel ==
    (pc = "load_config_done" /\ Malformed(config)) => loaded = Sentinel

\* C9 as stated: every '<prefix>-<N> (MC: <V>)' string loads as (V, N).
C9_OfficialLoads ==
    (pc = "load_config_done" /\ cfgParts.wf) => loaded = Tuple(cfgParts.v, int(cfgParts.n))

\* C9, amended: every '<prefix>-<N> (MC: <V>)' string whose prefix holds no
\* space loads as (V, N), V a str and N the int the digits denote.
C9_OfficialLoadsNoSpace ==
    (pc = "load_config_done" /\ cfgParts.wf /\ HasNoSpace(cfgParts.prefix))
        => loaded = Tuple(cfgParts.v, int(cfgParts.n))

\* 'build-205 (MC: 1.16.5)' was loaded as ('1.16.5', 205)
C9_Witness ==
    /\ pc = "load_config_done"
    /\ config.field = PyStr(<<"b", "u", "i", "l", "d", "-", "2", "0", "5", " ", "(", "M", "C", ":", " ",
                              "1", ".", "1", "6", ".", "5", ")">>)
    /\ loaded.version = PyStr(<<"1", ".", "1", "6", ".", "5">>)
    /\ loaded.build = PyInt(205)

----------------------------------------------------------------------------
(* Properties of download() *)

\* C10: when download() returns True into a destination that was missing or
\* empty, the destination holds exactly the response body, whatever its
\* length.
C10_FileIsBody ==
    (pc = "download_done" /\ ret = "True" /\ dest0.data = <<>>) => download_data = File(body)

\* a body one byte longer than a block was downloaded into an empty destination
C10_Witness ==
    /\ pc = "download_done" /\ ret = "True"
    /\ dest0.data = <<>>
    /\ Len(body) = blocksize + 1
    /\ download_data = File(body)

\* C11: every 'bytes so far' value written is at most the total length, the
\* values never decrease, and a completed download has written one value per
\* iteration, the last of them the total length itself.
C11_ProgressWithinLength ==
    /\ \A k \in 1..Len(progress) : progress[k] <= length
    /\ \A k \in 1..(Len(progress) - 1) : progress[k] <= progress[k + 1]
    /\ (pc = "download_done" /\ ret = "True" /\ ~quiet) =>
        /\ Len(progress) = total(length)
        /\ progress[Len(progress)] = length

\* a body of one block and one byte was reported as 0, 4608, 4609
C11_Witness ==
    /\ pc = "download_done" /\ ret = "True"
    /\ Len(body) = blocksize + 1
    /\ progress = <<0, blocksize, blocksize + 1>>

\* C16: no failure leaves download() as an exception: it returns True or
\* False, whatever step failed.
C16_DownloadNeverRaises ==
    pc = "download_done" => ret \in {"True", "False"}

----------------------------------------------------------------------------
(* Properties of _select() *)

\* the value _select resolves: the default for an empty input
Resolved == IF val = EmptyToken THEN default ELSE val

\* C12: over a non-empty candidate list an empty input stands for the default;
\* 'latest' gives (True, choice[0]); any other value gives (True, value) when
\* it is in the list and (False, '') when it is not; and _select changes
\* neither the installed state nor the cached version list nor the candidates.
C12_SelectResolves ==
    /\ [](pc = "select_done" /\ Len(choice) > 0 =>
            /\ Resolved = LatestToken => selected = [stat |-> "True", val |-> choice[1]]
            /\ Resolved # LatestToken /\ In(Resolved, choice)
                    => selected = [stat |-> "True", val |-> Resolved]
            /\ Resolved # LatestToken /\ ~In(Resolved, choice)
                    => selected = [stat |-> "False", val |-> EmptyToken])
    /\ [][pc = "select" => UNCHANGED <<version, buildnum, availableVersions, choice>>]_vars

\* an empty input was resolved through the default 'latest' to the first of two candidates
C12_Witness ==
    /\ pc = "select_done"
    /\ val = EmptyToken /\ default = LatestToken
    /\ Len(choice) = 2 /\ choice[1] # choice[2]
    /\ selected = [stat |-> "True", val |-> choice[1]]

----------------------------------------------------------------------------
(* Properties of get_new(), version_select() and __main__ *)

\* the installed state held in memory
installed == <<version, buildnum>>

\* get_new has returned without completing an update
GetNewGaveUp ==
    /\ pc = "idle"
    /\ exitPath \in {"select_failed", "declined", "download_failed", "install_failed"}

\* C13: the installed state (version, buildnum) changes only in the step of
\* get_new that follows an install() that returned True, and is then set to
\* the selected (version, build); when get_new has returned any other way,
\* and when check() has returned, it is what it was at the call.
C13_StateChangesOnlyAfterInstall ==
    /\ [](GetNewGaveUp \/ pc = "check_done" => installed = before)
    /\ [][installed' # installed =>
            /\ pc = "install_done" /\ ret = "True"
            /\ installed' = <<selVer, selBuild>>]_vars

\* get_new has installed a selection that differs from the state at the call
C13_Witness ==
    /\ pc = "idle"
    /\ exitPath = "updated"
    /\ installed = <<selVer, selBuild>>
    /\ installed # before

\* a token resolves validly against a candidate list: 'latest' (typed, or
\* standing in for an empty input) needs a first candidate, any other token
\* must be a candidate
Valid(tok, ch, d) ==
    IF PyEq(with_default(tok, d), LatestToken) THEN Len(ch) > 0 ELSE In(with_default(tok, d), ch)

\* one pass of a selection of version_select, from the candidates ch with
\* default d, that goes on at next when the selection is made
SelectsOnce(ch, d, next) ==
    IF prompt
    THEN /\ Valid(entered', ch, d) => pc' = next
         /\ ~Valid(entered', ch, d) => pc' = pc /\ exitPath' = exitPath
    ELSE /\ entered' = EmptyToken
         /\ Valid(d, ch, d) => pc' = next
         /\ ~Valid(d, ch, d) =>
                /\ pc' = "idle" /\ exitPath' = "select_failed"
                /\ requested' = <<NoToken, NoToken>> /\ tempExists' = tempExists

\* C20: version_select returns only a version of the fetched version list
\* with a build of the list fetched for that version; without prompt each
\* selection resolves the default once and a rejection returns (None, None)
\* with no download; with prompt a rejection asks again and the loop is left
\* exactly when the entered token resolves validly.
C20_SelectsMembers ==
    /\ [](pc = "gn_confirm" =>
            /\ In(selVer, availableVersions)
            /\ In(selBuild, nums)
            /\ selVer \in RunVersions /\ nums = remoteBuilds[selVer])
    /\ [][/\ pc = "vs_version" => SelectsOnce(availableVersions, default_version, "vs_builds")
          /\ pc = "vs_build" => SelectsOnce(nums, default_build, "gn_confirm")]_vars

\* the newest build the remote lists for the version installed at the call
NewestBuild == remoteBuilds[before[1]][1]

\* at the call the installed version was the newest remote version, and the
\* newest remote build of it is another build than the installed one
NewerBuildOnly ==
    /\ Len(remoteVersions) > 0
    /\ before[1] = remoteVersions[1]
    /\ Len(remoteBuilds[before[1]]) > 0
    /\ str(NewestBuild) # str(before[2])

\* get_new runs, or has returned, without prompt and with the defaults 'latest'
LatestRun ==
    /\ ~prompt
    /\ default_version = LatestToken /\ default_build = LatestToken
    /\ exitPath \in {"running", "updated", "download_failed", "install_failed"}

\* C14: with the newest remote version installed and a newer build of it on
\* the remote, check() returns True once both listings were served, a
\* get_new without prompt and with 'latest'/'latest' asks for the download of
\* exactly that build of that version, and when download and install have
\* succeeded the installed state is that version and that build.
C14_EndToEnd ==
    NewerBuildOnly =>
        /\ pc = "check_done" /\ verResp.outcome = "ok" /\ buildResp.outcome = "ok"
                => ret = "True"
        /\ LatestRun /\ requested # <<NoToken, NoToken>>
                => requested = <<str(before[1]), str(NewestBuild)>>
        /\ LatestRun /\ pc = "idle" /\ exitPath = "updated"
                => installed = <<before[1], NewestBuild>>

\* check() returned True and the get_new that followed installed the newer build
C14_Witness ==
    /\ pc = "idle"
    /\ calls = 2
    /\ update_available
    /\ NewerBuildOnly
    /\ LatestRun /\ exitPath = "updated"
    /\ requested = <<str(before[1]), str(NewestBuild)>>
    /\ installed = <<before[1], NewestBuild>>
    /\ installed # before

\* get_new has returned from an attempt that created a temp directory
AttemptEnded ==
    /\ pc = "idle"
    /\ exitPath \in {"updated", "download_failed", "install_failed"}

\* C17: when get_new has returned from an attempt that created a temp
\* directory (update done, download failed, or install failed and recovery
\* attempted), that temp directory no longer exists.
C17_TempDirGone ==
    AttemptEnded => ~tempExists

\* C18: the process ends with a non-zero exit status when the install of its
\* last get_new failed, with or without a successful recovery (a status that
\* tells a failed recovery from a successful one is non-zero in both cases),
\* and with a non-zero status only after a failure.
C18_ExitStatus ==
    pc = "exited" =>
        /\ exitPath = "install_failed" => exitCode # 0
        /\ "critical" \in reports /\ exitPath = "install_failed" => exitCode \notin {0, 1}
        /\ exitCode # 0 => exitPath # "updated" \/ ret = "raised"

\* everything but the quiet flag and what was written to the terminal
observable ==
    <<pc, ret, target, backup, download_data, tempExists, reports, steps, orig0, new0,
      version, buildnum, verResp, buildResp, fetched, config, cfgParts, loaded, use_config,
      body, offset, iter, dest0, availableVersions, val, choice, default, selected,
      prompt, remoteVersions, remoteBuilds, default_version, default_build, selVer, selBuild,
      nums, prompts, calls, exitPath, before, requested, exitCode, update_available, entered, stored, answer>>

\* C15: quiet is a side channel only.  Every step of a run can be taken with
\* the quiet flag reading the other way, under the same remote answers, user
\* inputs and file-system outcomes, and gives the same results, files, temp
\* directory and installed state; so two runs that differ only in the flag
\* agree on all of these step by step.
C15_QuietIsSideChannel ==
    [][\A q \in BOOLEAN \ {quiet} : \E o \in {observable'} : ENABLED (NextRunQ(q) /\ observable' = o)]_vars

\* a quiet run has downloaded a body without writing the progress counter
C15_Witness ==
    /\ quiet
    /\ pc = "download_done" /\ ret = "True"
    /\ download_data = File(body) /\ Len(body) > 0
    /\ progress = <<>>
    /\ exitPath = "running"

\* this step of version_select asks the remote for the version list
FetchesVersions == pc = "vs_fetch" /\ fetched' # fetched

\* C21: once version_select has fetched a version list and stored it, no
\* later step of version_select asks the remote for the version list again,
\* whatever list was served.
C21_FetchedOnce ==
    [][stored => ~FetchesVersions]_vars

\* get_new has returned before it called install()
ReturnedEarly ==
    /\ pc = "idle"
    /\ exitPath \in {"select_failed", "declined", "download_failed"}

\* the answer at (Y/N) declines: 'n' or 'no' in any case
Declines == prompt /\ lower(answer') \in {"n", "no"}

\* C22: in get_new the target changes only in steps of install(); install()
\* is entered only from a download() that returned True, for a selected
\* version and build of the fetched lists, and after a (Y/N) answer, asked
\* only when prompting, that was not 'n'/'no' in any case; every other answer
\* goes on.  When the selection failed, the user declined or the download
\* failed, install() has run no step; a decline creates no temp directory
\* and requests no download.
C22_InstallGuarded ==
    /\ [](ReturnedEarly => steps = <<>>)
    /\ [][/\ target' # target => InInstall
          /\ pc' = "install_backup" =>
                /\ pc = "download_done" /\ ret = "True"
                /\ In(selVer, availableVersions) /\ In(selBuild, nums)
                /\ ~(prompt /\ lower(answer) \in {"n", "no"})
                /\ (answer = "unasked") = ~prompt
          /\ pc = "gn_confirm" =>
                /\ Declines <=> pc' = "idle" /\ exitPath' = "declined"
                /\ Declines => UNCHANGED <<target, tempExists, download_data, backup, requested>>
                /\ ~Declines => pc' = "download_open"]_vars

\* the user answered the (Y/N) prompt with an empty line and install() has
\* replaced the target by the download
C22_Witness ==
    /\ pc = "install_done" /\ ret = "True"
    /\ prompt /\ answer = ""
    /\ target = File(body) /\ target # orig0

\* check() has returned after both listings were served, and the call
\* before it was a get_new without prompt, with the defaults 'latest', that
\* installed its selection
CheckedAfterLatest ==
    /\ pc = "check_done"
    /\ verResp.outcome = "ok"
    /\ buildResp.outcome \notin {"open_fail", "read_fail"}
    /\ ~prompt
    /\ default_version = LatestToken /\ default_build = LatestToken
    /\ exitPath = "updated"

\* C23: after a get_new with the selections 'latest'/'latest' has installed,
\* a check() that follows against the same remote returns False: the stored
\* state is the remote's newest version and build under check()'s comparison.
C23_Converges ==
    CheckedAfterLatest => ret = "False"

\* C25: in every get_new call, also one that follows a failed download or a
\* failed install, download_data does not exist when download() opens it,
\* and a download that returned True left exactly the body served: no bytes
\* of an earlier attempt stand before it.
C25_FreshStaging ==
    /\ pc = "download_open" /\ exitPath = "running" => ~download_data.exists
    /\ pc = "download_done" /\ exitPath = "running" /\ ret = "True" => download_data = File(body)

\* a second get_new is about to download after an earlier download had failed
C25_Witness ==
    /\ pc = "download_open" /\ exitPath = "running"
    /\ calls = 2
    /\ "File Download" \in reports
    /\ tempExists /\ ~download_data.exists

----------------------------------------------------------------------------
(* Properties of the constructor *)

\* no override was supplied: the argument is the constructor's default None
\* or the sentinel the command line passes
NoOverride(arg, sentinel) == arg = NoToken \/ PyEq(arg, sentinel)

\* C24: when ServerUpdater has been constructed, version and build each
\* equal the argument when an override was supplied, and otherwise what
\* load_config returned, or the sentinel '0' / 0 when config loading is off;
\* the default None and the sentinels '0' / 0 both count as no override.
C24_InitialState ==
    pc = "start_done" /\ ret = "constructed" =>
        /\ version = IF NoOverride(before[1], PyStr(<<"0">>)) THEN temp(config).version ELSE before[1]
        /\ buildnum = IF NoOverride(before[2], PyInt(0)) THEN temp(config).build ELSE before[2]

====
